---- MODULE Spec2Model ----
(***************************************************************************)
(* A model of src/caching.py: the request handlers handle_query and        *)
(* analytics running on concurrent threads over the module's global state  *)
(* (cache, cache_embeddings, cache_timestamps, stats) guarded by one       *)
(* threading.Lock.  Every step of a handler that reads the clock or the    *)
(* shared state is an action of its own, so that the clock may advance and *)
(* other threads may start between any two of them.                        *)
(***************************************************************************)
EXTENDS Integers, Sequences, FiniteSets, TLC

\* ------------------------------------------------------------------ bounds

\* Worker threads serving requests.
Procs == {1, 2}

\* Requests started over a whole run.
MaxRequests == 4

\* The clock (time.time()) runs over 0..MaxTime.
MaxTime == 2

\* src/caching.py:15 sets CACHE_SIZE = 2000; the model keeps the comparison
\* and scales the capacity down.
CACHE_SIZE == 2

\* src/caching.py:16 sets TTL_SECONDS = 86400; scaled down to clock ticks.
TTL_SECONDS == 1

\* src/caching.py:18
AVG_TOKENS == 3000

\* src/caching.py:17, 1.0 / 1_000_000 dollars per token, in millionths of a
\* dollar.
MODEL_COST == 1

\* The largest request count the report's arithmetic is checked for.
MaxCount == 10

\* ------------------------------------------------------------------- texts

\* Query texts are sequences of characters.
Space == " "

IsSpace(c) == c = Space

\* str.lower on one character
LowerChar(c) ==
  CASE c = "A" -> "a"
    [] c = "B" -> "b"
    [] c = "C" -> "c"
    [] OTHER -> c

lower(text) == [i \in DOMAIN text |-> LowerChar(text[i])]

RECURSIVE lstrip(_)
lstrip(s) == IF s # <<>> /\ IsSpace(Head(s)) THEN lstrip(Tail(s)) ELSE s

RECURSIVE rstrip(_)
rstrip(s) ==
  IF s # <<>> /\ IsSpace(s[Len(s)]) THEN rstrip(SubSeq(s, 1, Len(s) - 1)) ELSE s

strip(s) == rstrip(lstrip(s))

\* str.split(): the maximal runs of non-whitespace characters, in order.
RECURSIVE splitFrom(_, _, _)
splitFrom(s, i, word) ==
  IF i > Len(s)
    THEN (IF word = <<>> THEN <<>> ELSE <<word>>)
    ELSE IF IsSpace(s[i])
      THEN (IF word = <<>> THEN <<>> ELSE <<word>>) \o splitFrom(s, i + 1, <<>>)
      ELSE splitFrom(s, i + 1, Append(word, s[i]))

split(s) == splitFrom(s, 1, <<>>)

\* " ".join(words)
RECURSIVE join(_)
join(words) ==
  IF words = <<>> THEN <<>>
  ELSE IF Len(words) = 1 THEN words[1]
  ELSE words[1] \o <<Space>> \o join(Tail(words))

normalize(text) == join(split(strip(lower(text))))

\* hashlib.md5(...).hexdigest(): modelled as an injective tag of the hashed
\* text (no two of the model's texts collide under MD5).
md5_hexdigest(bytes) == [md5 |-> bytes]

\* A variant that hashes the text as it was sent.
exact_key_raw(query) == md5_hexdigest(query)

exact_key(query) == md5_hexdigest(normalize(query))

\* The query texts clients send.  " A" normalizes to "a".
Queries == { <<"a">>, <<Space, "A">>, <<"b">>, <<"c">>, <<"d">> }

\* -------------------------------------------------------------- embeddings

\* model.encode(norm): the sentence embedding of a normalized text.  The
\* vectors stand for the external model's: "a" and "b" are near-duplicates
\* (cosine 0.995), "c" and "d" have cosine exactly 0.95 (380 / (20 * 20)),
\* every other pair is far below the threshold.
encode(norm) ==
  CASE norm = <<"a">> -> <<20, 0, 0, 0, 0>>
    [] norm = <<"b">> -> <<20, 2, 0, 0, 0>>
    [] norm = <<"c">> -> <<0, 20, 0, 0, 0>>
    [] norm = <<"d">> -> <<1, 19, 5, 3, 2>>
    [] OTHER -> <<0, 0, 0, 0, 20>>

RECURSIVE dotFrom(_, _, _)
dotFrom(a, b, i) == IF i > Len(a) THEN 0 ELSE a[i] * b[i] + dotFrom(a, b, i + 1)

dot(a, b) == dotFrom(a, b, 1)

\* A variant that also accepts a similarity of exactly 0.95.
cosine_sim_at_least(a, b) ==
  /\ dot(a, b) > 0
  /\ 400 * dot(a, b) * dot(a, b) >= 361 * dot(a, a) * dot(b, b)

\* cosine_sim(a, b) > 0.95, in exact arithmetic:
\* dot/(|a||b|) > 19/20  iff  dot > 0 and 400 dot^2 > 361 |a|^2 |b|^2.
\* A zero vector gives nan in the code, and nan > 0.95 is False.
cosine_sim_exceeds(a, b) ==
  /\ dot(a, b) > 0
  /\ 400 * dot(a, b) * dot(a, b) > 361 * dot(a, a) * dot(b, b)

\* ----------------------------------------------------------- ordered dicts

\* An OrderedDict is a sequence of <<key, value>> items in insertion order.
OD_Keys(od) == {od[i][1] : i \in DOMAIN od}

OD_Index(od, k) == CHOOSE i \in DOMAIN od : od[i][1] = k

OD_Get(od, k) == od[OD_Index(od, k)][2]

\* od[k] = v: an existing key keeps its position, a new key goes last.
OD_Set(od, k, v) ==
  IF k \in OD_Keys(od)
    THEN [od EXCEPT ![OD_Index(od, k)] = <<k, v>>]
    ELSE Append(od, <<k, v>>)

RECURSIVE OD_Pop(_, _)
\* od.pop(k, None)
OD_Pop(od, k) ==
  IF od = <<>> THEN <<>>
  ELSE IF Head(od)[1] = k THEN Tail(od)
  ELSE <<Head(od)>> \o OD_Pop(Tail(od), k)

\* next(iter(od))
OD_First(od) == od[1][1]

OD_KeySeq(od) == [i \in DOMAIN od |-> od[i][1]]

\* A variant of d[k] = v that keeps the value of a key already present
\* (setdefault).
Dict_SetDefault(d, k, v) ==
  [x \in DOMAIN d \cup {k} |-> IF x \in DOMAIN d THEN d[x] ELSE v]

\* A plain dict (cache_timestamps) is a function on its key set.
Dict_Set(d, k, v) == [x \in DOMAIN d \cup {k} |-> IF x = k THEN v ELSE d[x]]

Dict_Pop(d, k) == [x \in DOMAIN d \ {k} |-> d[x]]

\* ------------------------------------------------------------------- state

VARIABLES
  cache,             \* OrderedDict key -> answer
  cache_embeddings,  \* OrderedDict key -> embedding
  cache_timestamps,  \* dict key -> timestamp
  stats,             \* the four counters
  lock,              \* the thread holding threading.Lock, 0 when free
  now,               \* time.time()
  pc,                \* each thread's position in its handler
  query,             \* each thread's request text
  key,               \* each thread's local key = exact_key(query)
  emb,               \* each thread's local emb = model.encode(norm)
  idx,               \* each thread's position in the semantic scan
  resp,              \* the response most recently returned
  started,           \* requests started so far
  hist               \* history: the hits served and the insertions made

vars == <<cache, cache_embeddings, cache_timestamps, stats, lock, now,
          pc, query, key, emb, idx, resp, started, hist>>

NoResp == [kind |-> "none", status |-> 0]

NoQuery == <<>>

NoKey == [md5 |-> <<"-">>]

NoEmb == <<>>

Init ==
  /\ cache = <<>>
  /\ cache_embeddings = <<>>
  /\ cache_timestamps = <<>>
  /\ stats = [total_requests |-> 0, hits |-> 0, misses |-> 0, total_tokens |-> 0]
  /\ lock = 0
  /\ now = 0
  /\ pc = [p \in Procs |-> "idle"]
  /\ query = [p \in Procs |-> NoQuery]
  /\ key = [p \in Procs |-> NoKey]
  /\ emb = [p \in Procs |-> NoEmb]
  /\ idx = [p \in Procs |-> 0]
  /\ resp = NoResp
  /\ started = 0
  /\ hist = <<>>


\* ----------------------------------------------------------------- helpers

\* A variant of is_cache_valid that still accepts an entry aged exactly
\* TTL_SECONDS.
is_cache_valid_inclusive(k) ==
  /\ k \in DOMAIN cache_timestamps
  /\ (now - cache_timestamps[k]) <= TTL_SECONDS

\* is_cache_valid(key), the clock read at the call.
is_cache_valid(k) ==
  /\ k \in DOMAIN cache_timestamps
  /\ (now - cache_timestamps[k]) < TTL_SECONDS

\* f"Summarized '{query}' (used {AVG_TOKENS} tokens)"
Answer(q) == [summarized |-> q, tokens |-> AVG_TOKENS]

\* The JSON body handle_query returns (latency left out: it is wall-clock).
QueryResp(answer, cached, k) ==
  [kind |-> "query", status |-> 200, answer |-> answer, cached |-> cached,
   cacheKey |-> k]

\* Flask's answer to an exception that escapes the handler.
ErrorResp == [kind |-> "error", status |-> 500]

\* The lock is released: the with-block is left.
Release(p) == lock' = 0

\* ------------------------------------------------------------ handle_query

\* root() hands a non-empty query to handle_query, which loads the model and
\* derives key and norm before it touches the lock.
Start(p, q) ==
  /\ pc[p] = "idle"
  /\ started < MaxRequests
  /\ started' = started + 1
  /\ query' = [query EXCEPT ![p] = q]
  /\ key' = [key EXCEPT ![p] = exact_key(q)]
  /\ pc' = [pc EXCEPT ![p] = "acquire"]
  /\ UNCHANGED <<cache, cache_embeddings, cache_timestamps, stats, lock, now,
                 emb, idx, resp, hist>>

\* The body of a POST whose "query" is missing (data.get gives None) or is
\* the empty string.
EmptyBodies ==
  { [has |-> FALSE, query |-> <<>>], [has |-> TRUE, query |-> <<>>] }

\* Python's "not query" for None and for a string.
not_query(data) == ~data.has \/ Len(data.query) = 0

\* The reply of root() to a POST without a query.
ProbeResp ==
  [kind |-> "probe", status |-> 200, answer |-> <<>>, cached |-> FALSE,
   cacheKey |-> "probe"]

\* A variant that counts the empty request before answering it.
RootProbeCounted(p, data) ==
  /\ pc[p] = "idle"
  /\ started < MaxRequests
  /\ not_query(data)
  /\ started' = started + 1
  /\ stats' = [stats EXCEPT !.total_requests = @ + 1]
  /\ resp' = ProbeResp
  /\ UNCHANGED <<cache, cache_embeddings, cache_timestamps, lock, now,
                 pc, query, key, emb, idx, hist>>

\* root(), POST with an empty or missing query: answered at once, without
\* handle_query and without the lock.
RootProbe(p, data) ==
  /\ pc[p] = "idle"
  /\ started < MaxRequests
  /\ not_query(data)
  /\ started' = started + 1
  /\ resp' = ProbeResp
  /\ UNCHANGED <<cache, cache_embeddings, cache_timestamps, stats, lock, now,
                 pc, query, key, emb, idx, hist>>

\* A variant that enters the block without waiting for the lock.
AcquireWithoutWaiting(p) ==
  /\ pc[p] = "acquire"
  /\ lock' = p
  /\ pc' = [pc EXCEPT ![p] = "exact"]
  /\ UNCHANGED <<cache, cache_embeddings, cache_timestamps, stats, now,
                 query, key, emb, idx, resp, started, hist>>

\* with lock: blocks until the lock is free.
Acquire(p) ==
  /\ pc[p] = "acquire"
  /\ lock = 0
  /\ lock' = p
  /\ pc' = [pc EXCEPT ![p] = "exact"]
  /\ UNCHANGED <<cache, cache_embeddings, cache_timestamps, stats, now,
                 query, key, emb, idx, resp, started, hist>>

\* A variant of the hit that also files the served entry under the querying
\* text's own key.
ServeHitStoresAlias(p, k) ==
  /\ resp' = QueryResp(OD_Get(cache, k), TRUE, k)
  /\ hist' = Append(hist, [op |-> "hit", key |-> k])
  /\ Release(p)
  /\ pc' = [pc EXCEPT ![p] = "idle"]
  /\ query' = [query EXCEPT ![p] = NoQuery]
  /\ key' = [key EXCEPT ![p] = NoKey]
  /\ emb' = [emb EXCEPT ![p] = NoEmb]
  /\ idx' = [idx EXCEPT ![p] = 0]
  /\ cache' = OD_Set(cache, key[p], OD_Get(cache, k))
  /\ cache_embeddings' = OD_Set(cache_embeddings, key[p], OD_Get(cache_embeddings, k))
  /\ cache_timestamps' = Dict_Set(cache_timestamps, key[p], cache_timestamps[k])
  /\ UNCHANGED <<now, started>>

\* A hit on stored key k: count it, answer from the store, leave the with-block.
ServeHit(p, k) ==
  /\ resp' = QueryResp(OD_Get(cache, k), TRUE, k)
  /\ hist' = Append(hist, [op |-> "hit", key |-> k])
  /\ Release(p)
  /\ pc' = [pc EXCEPT ![p] = "idle"]
  /\ query' = [query EXCEPT ![p] = NoQuery]
  /\ key' = [key EXCEPT ![p] = NoKey]
  /\ emb' = [emb EXCEPT ![p] = NoEmb]
  /\ idx' = [idx EXCEPT ![p] = 0]
  /\ UNCHANGED <<cache, cache_embeddings, cache_timestamps, now, started>>

\* key in cache and is_cache_valid(key)
ExactFound(p) ==
  /\ key[p] \in OD_Keys(cache)
  /\ is_cache_valid(key[p])

\* stats["total_requests"] += 1, then 1. exact match, found.
ExactHit(p) ==
  /\ pc[p] = "exact"
  /\ ExactFound(p)
  /\ stats' = [stats EXCEPT !.total_requests = @ + 1, !.hits = @ + 1]
  /\ ServeHit(p, key[p])

\* A variant of the failed exact lookup that deletes the expired entry it
\* found.
ExactMissPurging(p) ==
  /\ pc[p] = "exact"
  /\ ~ExactFound(p)
  /\ stats' = [stats EXCEPT !.total_requests = @ + 1]
  /\ pc' = [pc EXCEPT ![p] = "encode"]
  /\ cache' = OD_Pop(cache, key[p])
  /\ cache_embeddings' = OD_Pop(cache_embeddings, key[p])
  /\ cache_timestamps' = Dict_Pop(cache_timestamps, key[p])
  /\ UNCHANGED <<lock, now, query, key, emb, idx, resp, started, hist>>

\* stats["total_requests"] += 1, then 1. exact match, not found.
ExactMiss(p) ==
  /\ pc[p] = "exact"
  /\ ~ExactFound(p)
  /\ stats' = [stats EXCEPT !.total_requests = @ + 1]
  /\ pc' = [pc EXCEPT ![p] = "encode"]
  /\ UNCHANGED <<cache, cache_embeddings, cache_timestamps, lock, now,
                 query, key, emb, idx, resp, started, hist>>

\* 2. emb = model.encode(norm) returns; the scan starts at the first item.
EncodeOk(p) ==
  /\ pc[p] = "encode"
  /\ emb' = [emb EXCEPT ![p] = encode(normalize(query[p]))]
  /\ idx' = [idx EXCEPT ![p] = 1]
  /\ pc' = [pc EXCEPT ![p] = "scan"]
  /\ UNCHANGED <<cache, cache_embeddings, cache_timestamps, stats, lock, now,
                 query, key, resp, started, hist>>

\* A variant in which the exception leaves the lock held (acquire() with no
\* try/finally).
EncodeRaiseKeepsLock(p) ==
  /\ pc[p] = "encode"
  /\ resp' = ErrorResp
  /\ pc' = [pc EXCEPT ![p] = "idle"]
  /\ query' = [query EXCEPT ![p] = NoQuery]
  /\ key' = [key EXCEPT ![p] = NoKey]
  /\ emb' = [emb EXCEPT ![p] = NoEmb]
  /\ UNCHANGED <<cache, cache_embeddings, cache_timestamps, stats, lock, now,
                 idx, started, hist>>

\* model.encode raises: the exception leaves the with-block, which releases
\* the lock, and the request ends with an error.
EncodeRaise(p) ==
  /\ pc[p] = "encode"
  /\ Release(p)
  /\ resp' = ErrorResp
  /\ pc' = [pc EXCEPT ![p] = "idle"]
  /\ query' = [query EXCEPT ![p] = NoQuery]
  /\ key' = [key EXCEPT ![p] = NoKey]
  /\ emb' = [emb EXCEPT ![p] = NoEmb]
  /\ UNCHANGED <<cache, cache_embeddings, cache_timestamps, stats, now,
                 idx, started, hist>>

\* The item the scan is at matches: valid and similar enough.
ScanMatches(p) ==
  /\ is_cache_valid(cache_embeddings[idx[p]][1])
  /\ cosine_sim_exceeds(emb[p], cache_embeddings[idx[p]][2])

\* for k, stored_emb in cache_embeddings.items(): one iteration.
ScanHit(p) ==
  /\ pc[p] = "scan"
  /\ idx[p] <= Len(cache_embeddings)
  /\ ScanMatches(p)
  /\ stats' = [stats EXCEPT !.hits = @ + 1]
  /\ ServeHit(p, cache_embeddings[idx[p]][1])

ScanNext(p) ==
  /\ pc[p] = "scan"
  /\ idx[p] <= Len(cache_embeddings)
  /\ ~ScanMatches(p)
  /\ idx' = [idx EXCEPT ![p] = @ + 1]
  /\ UNCHANGED <<cache, cache_embeddings, cache_timestamps, stats, lock, now,
                 pc, query, key, emb, resp, started, hist>>

\* The loop is exhausted: fall through to the miss branch.
ScanEnd(p) ==
  /\ pc[p] = "scan"
  /\ idx[p] > Len(cache_embeddings)
  /\ idx' = [idx EXCEPT ![p] = 0]
  /\ pc' = [pc EXCEPT ![p] = "backend"]
  /\ UNCHANGED <<cache, cache_embeddings, cache_timestamps, stats, lock, now,
                 query, key, emb, resp, started, hist>>

\* 3. miss: time.sleep(1.9) returns, the answer is built, the miss counted, and
\* cache[key] = answer; cache_embeddings[key] = emb;
\* cache_timestamps[key] = time.time()
Backend(p) ==
  /\ pc[p] = "backend"
  /\ stats' = [stats EXCEPT !.misses = @ + 1, !.total_tokens = @ + AVG_TOKENS]
  /\ cache' = OD_Set(cache, key[p], Answer(query[p]))
  /\ cache_embeddings' = OD_Set(cache_embeddings, key[p], emb[p])
  /\ cache_timestamps' = Dict_Set(cache_timestamps, key[p], now)
  /\ hist' = Append(hist, [op |-> "insert", key |-> key[p]])
  /\ pc' = [pc EXCEPT ![p] = "evict"]
  /\ UNCHANGED <<lock, now, query, key, emb, idx, resp, started>>

\* A variant of the loop condition that is off by one.
EvictNeededLate == Len(cache) > CACHE_SIZE + 1

\* while len(cache) > CACHE_SIZE
EvictNeeded == Len(cache) > CACHE_SIZE

\* A variant that picks the newest item (popitem's default end).
EvictVictimLast == cache[Len(cache)][1]

\* old = next(iter(cache))
EvictVictim == OD_First(cache)

\* A variant of the eviction that forgets the timestamp map.
PopTimestampSkipped(old) == cache_timestamps

\* cache_timestamps.pop(old, None)
PopTimestamp(old) == Dict_Pop(cache_timestamps, old)

\* One iteration of the eviction loop.
EvictStep(p) ==
  /\ pc[p] = "evict"
  /\ EvictNeeded
  /\ cache' = OD_Pop(cache, EvictVictim)
  /\ cache_embeddings' = OD_Pop(cache_embeddings, EvictVictim)
  /\ cache_timestamps' = PopTimestamp(EvictVictim)
  /\ UNCHANGED <<stats, lock, now, pc, query, key, emb, idx, resp, started, hist>>

\* The loop ends; the miss response is returned and the with-block left.
Return(p) ==
  /\ pc[p] = "evict"
  /\ ~EvictNeeded
  /\ resp' = QueryResp(Answer(query[p]), FALSE, key[p])
  /\ Release(p)
  /\ pc' = [pc EXCEPT ![p] = "idle"]
  /\ query' = [query EXCEPT ![p] = NoQuery]
  /\ key' = [key EXCEPT ![p] = NoKey]
  /\ emb' = [emb EXCEPT ![p] = NoEmb]
  /\ UNCHANGED <<cache, cache_embeddings, cache_timestamps, stats, now,
                 idx, started, hist>>

\* --------------------------------------------------------------- analytics

StartAnalytics(p) ==
  /\ pc[p] = "idle"
  /\ started < MaxRequests
  /\ started' = started + 1
  /\ pc' = [pc EXCEPT ![p] = "an_acquire"]
  /\ UNCHANGED <<cache, cache_embeddings, cache_timestamps, stats, lock, now,
                 query, key, emb, idx, resp, hist>>

\* with lock:
AnalyticsAcquire(p) ==
  /\ pc[p] = "an_acquire"
  /\ lock = 0
  /\ lock' = p
  /\ pc' = [pc EXCEPT ![p] = "an_read"]
  /\ UNCHANGED <<cache, cache_embeddings, cache_timestamps, stats, now,
                 query, key, emb, idx, resp, started, hist>>

\* max(1, total)
max1(total) == IF total > 1 THEN total ELSE 1

\* Python's round() of the quotient n / d to an integer: the nearest one, an
\* exact tie going to the even neighbour.  (Within MaxCount the only ties of
\* hit_rate are multiples of 1/8, which the floats hold exactly.)
round_div(n, d) ==
  LET q == n \div d
      r == n % d
  IN  IF 2 * r > d \/ (2 * r = d /\ q % 2 = 1) THEN q + 1 ELSE q

\* A variant that cuts the quotient off instead of rounding it.
hitRate_truncated(hits, total) == (1000 * hits) \div max1(total)

\* "hitRate": round(hits / max(1, total), 3), in thousandths.
hitRate(hits, total) == round_div(1000 * hits, max1(total))

\* cost_saved = hits * AVG_TOKENS * MODEL_COST, in millionths of a dollar.
cost_saved(hits) == hits * AVG_TOKENS * MODEL_COST

\* "costSavings": round(cost_saved, 2), in cents.  MODEL_COST is the double
\* next below 1e-6, so a product at a decimal tie (hits = 5: 0.015) lies
\* below the tie and is rounded down.
costSavings(hits) ==
  LET q == cost_saved(hits) \div 10000
      r == cost_saved(hits) % 10000
  IN  IF 2 * r > 10000 THEN q + 1 ELSE q

\* "savingsPercent": round(hit_rate * 100)
savingsPercent(hits, total) == round_div(100 * hits, max1(total))

\* The report, built from one reading of the counters in one critical
\* section (the fixed "strategies" list left out).
AnalyticsResp ==
  [kind |-> "analytics", status |-> 200,
   hitRate |-> hitRate(stats.hits, stats.total_requests),
   totalRequests |-> stats.total_requests,
   cacheHits |-> stats.hits,
   cacheMisses |-> stats.misses,
   cacheSize |-> Len(cache),
   costSavings |-> costSavings(stats.hits),
   savingsPercent |-> savingsPercent(stats.hits, stats.total_requests)]

AnalyticsRead(p) ==
  /\ pc[p] = "an_read"
  /\ resp' = AnalyticsResp
  /\ Release(p)
  /\ pc' = [pc EXCEPT ![p] = "idle"]
  /\ UNCHANGED <<cache, cache_embeddings, cache_timestamps, stats, now,
                 query, key, emb, idx, started, hist>>

\* ------------------------------------------------------------------- clock

\* time.time() advances.
Tick ==
  /\ now < MaxTime
  /\ now' = now + 1
  /\ UNCHANGED <<cache, cache_embeddings, cache_timestamps, stats, lock,
                 pc, query, key, emb, idx, resp, started, hist>>

\* ----------------------------------------------------------- specification

\* One step of thread p.
HandlerStep(p) ==
  \/ \E q \in Queries : Start(p, q)
  \/ \E data \in EmptyBodies : RootProbe(p, data)
  \/ Acquire(p)
  \/ ExactHit(p)
  \/ ExactMiss(p)
  \/ EncodeOk(p)
  \/ EncodeRaise(p)
  \/ ScanHit(p)
  \/ ScanNext(p)
  \/ ScanEnd(p)
  \/ Backend(p)
  \/ EvictStep(p)
  \/ Return(p)
  \/ StartAnalytics(p)
  \/ AnalyticsAcquire(p)
  \/ AnalyticsRead(p)

Next == Tick \/ \E p \in Procs : HandlerStep(p)

Spec == Init /\ [][Next]_vars

\* The report's arithmetic on its own: the service after m misses of text
\* "a" (each after the entry before had expired) and h hits on the entry, and
\* from there the analytics handler alone.
MetricsInit ==
  \E h, m \in 0..MaxCount :
    /\ h + m <= MaxCount
    /\ h > 0 => m > 0
    /\ stats = [total_requests |-> h + m, hits |-> h, misses |-> m,
                total_tokens |-> m * AVG_TOKENS]
    /\ cache = IF m = 0 THEN <<>>
               ELSE << <<exact_key(<<"a">>), Answer(<<"a">>)>> >>
    /\ cache_embeddings = IF m = 0 THEN <<>>
               ELSE << <<exact_key(<<"a">>), encode(normalize(<<"a">>))>> >>
    /\ cache_timestamps = IF m = 0 THEN <<>>
               ELSE Dict_Set(<<>>, exact_key(<<"a">>), 0)
    /\ hist = [i \in 1..(h + m) |->
                 [op |-> IF i <= m THEN "insert" ELSE "hit",
                  key |-> exact_key(<<"a">>)]]
    /\ lock = 0
    /\ now = 0
    /\ pc = [p \in Procs |-> "idle"]
    /\ query = [p \in Procs |-> NoQuery]
    /\ key = [p \in Procs |-> NoKey]
    /\ emb = [p \in Procs |-> NoEmb]
    /\ idx = [p \in Procs |-> 0]
    /\ resp = NoResp
    /\ started = 0

MetricsNext ==
  \E p \in Procs : StartAnalytics(p) \/ AnalyticsAcquire(p) \/ AnalyticsRead(p)

MetricsSpec == MetricsInit /\ [][MetricsNext]_vars

\* ---------------------------------------------------------------- fairness

\* The steps thread p takes while it holds the lock: a running thread is
\* scheduled again, the embedding call and the sleep return.
Step(p) ==
  \/ ExactHit(p) \/ ExactMiss(p) \/ EncodeOk(p) \/ EncodeRaise(p)
  \/ ScanHit(p) \/ ScanNext(p) \/ ScanEnd(p) \/ Backend(p) \/ EvictStep(p)
  \/ Return(p) \/ AnalyticsRead(p)

\* Thread p takes the lock.
Take(p) == Acquire(p) \/ AnalyticsAcquire(p)

\* Fair scheduling: a thread that can run does, and a thread waiting for the
\* lock gets it if the lock is free again and again.
Fairness == \A p \in Procs : WF_vars(Step(p)) /\ SF_vars(Take(p))

\* The handlers alone, the clock held still: no handler waits for the clock.
FairNext == \E p \in Procs : HandlerStep(p)

FairSpec == Init /\ [][FairNext]_vars /\ Fairness

\* ------------------------------------------------------------------ claims

\* The keys inserted so far, in insertion order (from the history).
InsertedKeys ==
  LET ins == SelectSeq(hist, LAMBDA e : e.op = "insert")
  IN  [i \in DOMAIN ins |-> ins[i].key]

\* The position in the history of the last read or write of key k.
LastUse(k) ==
  LET used == {i \in DOMAIN hist : hist[i].key = k}
  IN  CHOOSE i \in used : \A j \in used : j <= i

\* The stored key read or written least recently.
LruKey ==
  CHOOSE k \in OD_Keys(cache) : \A j \in OD_Keys(cache) : LastUse(k) <= LastUse(j)

\* C1: whenever no handler holds the lock, the store holds at most CACHE_SIZE
\* entries.
C1_CapacityInvariant == lock = 0 => Len(cache) <= CACHE_SIZE

\* More distinct keys than the capacity have been inserted, the evictions are
\* done and the lock is free.
C1_Witness ==
  /\ lock = 0
  /\ Cardinality({InsertedKeys[i] : i \in DOMAIN InsertedKeys}) > CACHE_SIZE
  /\ Len(cache) = CACHE_SIZE

\* C2: a key read by a hit is moved to the most-recently-used position, so the
\* entry an insertion evicts is always the one read or written least recently.
C2_PromotionOnHit ==
  [][\A k \in OD_Keys(cache) \ OD_Keys(cache') : k = LruKey]_vars

\* C3: CACHE_SIZE + 1 misses on pairwise distinct keys and no hit leave the
\* keys inserted after the first one, in order: exactly CACHE_SIZE entries,
\* the first-inserted key gone, every other one present.
C3_Precondition ==
  /\ lock = 0
  /\ stats.hits = 0
  /\ Len(InsertedKeys) = CACHE_SIZE + 1
  /\ \A i, j \in DOMAIN InsertedKeys : i # j => InsertedKeys[i] # InsertedKeys[j]

C3_OverflowEvictsFirst ==
  C3_Precondition =>
    /\ OD_KeySeq(cache) = Tail(InsertedKeys)
    /\ Len(cache) = CACHE_SIZE
    /\ InsertedKeys[1] \notin OD_Keys(cache)

C3_Witness == C3_Precondition /\ Len(cache) = CACHE_SIZE

\* Thread p's exact key is stored and its entry is younger than TTL_SECONDS.
FreshAt(k) ==
  /\ k \in OD_Keys(cache)
  /\ k \in DOMAIN cache_timestamps
  /\ now - cache_timestamps[k] < TTL_SECONDS

\* C4 as claimed: an exact-key lookup of a stored entry is a hit while
\* t - T < TTL_SECONDS, and once t - T >= TTL_SECONDS the request is a miss:
\* it increments no hit counter.
C4_ExpiredLookupIsMiss ==
  [][\A p \in Procs :
       /\ (pc[p] = "exact" /\ pc'[p] # "exact" /\ FreshAt(key[p]))
            => (stats'.hits = stats.hits + 1 /\ resp' = QueryResp(OD_Get(cache, key[p]), TRUE, key[p]))
       /\ (pc[p] \in {"encode", "scan"} /\ key[p] \in OD_Keys(cache))
            => stats'.hits = stats.hits]_vars

\* C4 amended: the exact-key lookup is a hit exactly when the stored entry is
\* younger than TTL_SECONDS; otherwise the request goes on to the semantic
\* path; every hit, exact or semantic, serves an entry younger than
\* TTL_SECONDS at the check, and a request whose own entry has expired is
\* only ever served another key's entry.
C4_TTLCorrectness ==
  [][\A p \in Procs :
       /\ (pc[p] = "exact" /\ pc'[p] # "exact") =>
            IF FreshAt(key[p])
              THEN /\ stats'.hits = stats.hits + 1
                   /\ resp' = QueryResp(OD_Get(cache, key[p]), TRUE, key[p])
              ELSE /\ stats'.hits = stats.hits
                   /\ pc'[p] = "encode"
       /\ (lock = p /\ stats'.hits # stats.hits) =>
            /\ stats'.hits = stats.hits + 1
            /\ resp'.kind = "query" /\ resp'.cached
            /\ FreshAt(resp'.cacheKey)
       /\ (pc[p] = "scan" /\ key[p] \in OD_Keys(cache) /\ stats'.hits # stats.hits)
            => resp'.cacheKey # key[p]]_vars

\* A request whose own entry has expired is in the semantic scan, after some
\* request was served a hit.
C4_Witness ==
  \E p \in Procs :
    /\ pc[p] = "scan"
    /\ key[p] \in OD_Keys(cache)
    /\ ~FreshAt(key[p])
    /\ stats.hits > 0

\* C5: whenever no handler holds the lock, the answer store, the embedding
\* store and the timestamp map hold the same keys.
C5_KeySetsPaired ==
  lock = 0 =>
    /\ OD_Keys(cache) = OD_Keys(cache_embeddings)
    /\ OD_Keys(cache) = DOMAIN cache_timestamps

\* Some key has been inserted twice, an eviction has removed a key, and the
\* lock is free.
C5_Witness ==
  /\ lock = 0
  /\ \E i, j \in DOMAIN InsertedKeys : i # j /\ InsertedKeys[i] = InsertedKeys[j]
  /\ \E i \in DOMAIN InsertedKeys : InsertedKeys[i] \notin OD_Keys(cache)

\* No request is in progress.
AllIdle == \A p \in Procs : pc[p] = "idle"

\* C6: whenever no request is in progress, total_requests = hits + misses and
\* total_tokens = misses * AVG_TOKENS.
C6_StatsAccounting ==
  AllIdle =>
    /\ stats.total_requests = stats.hits + stats.misses
    /\ stats.total_tokens = stats.misses * AVG_TOKENS

\* C7: no handler is inside the backend call while it holds the lock.
C7_BackendOutsideLock == \A p \in Procs : pc[p] = "backend" => lock # p

LockedPcs == {"exact", "encode", "scan", "backend", "evict", "an_read"}

SharedState == <<cache, cache_embeddings, cache_timestamps, stats>>

\* C9: a handler at a position that reads or writes the shared state holds
\* the lock, so at most one is at such a position; and every step that
\* changes the shared state is a step of the thread holding the lock.
C9_MutualExclusion ==
  /\ [](\A p \in Procs : pc[p] \in LockedPcs => lock = p)
  /\ [][SharedState' # SharedState =>
          /\ lock \in Procs
          /\ pc[lock] \in LockedPcs
          /\ \A q \in Procs \ {lock} : pc'[q] = pc[q]]_vars

\* One thread holds the lock in the backend call while the other waits for it.
C9_Witness ==
  \E p, q \in Procs :
    /\ p # q
    /\ lock = p
    /\ pc[p] = "backend"
    /\ pc[q] \in {"acquire", "an_acquire"}

\* C10: when no handler is inside a with-block the lock is free, whichever
\* way the last one left it; and under fair scheduling every request that
\* starts completes.
C10_LockReleasedAndProgress ==
  /\ []((\A p \in Procs : pc[p] \notin LockedPcs) => lock = 0)
  /\ \A p \in Procs : (pc[p] # "idle") ~> (pc[p] = "idle")

\* A request has ended with the embedding exception, an eviction has taken
\* place, and every thread is idle again with the lock free.
C10_Witness ==
  /\ AllIdle
  /\ lock = 0
  /\ resp = ErrorResp
  /\ \E i \in DOMAIN InsertedKeys : InsertedKeys[i] \notin OD_Keys(cache)

\* C11: a request whose embedding call fails is not aborted: it leaves the
\* embedding call only towards the miss branch, is answered with
\* cached = false and counted as a miss.
C11_EmbeddingFailsOpen ==
  [][\A p \in Procs :
       (pc[p] = "encode" /\ pc'[p] # "encode") =>
          \/ pc'[p] \in {"scan", "backend"}
          \/ /\ resp'.kind = "query"
             /\ ~resp'.cached
             /\ stats'.misses = stats.misses + 1]_vars

\* C12: a POST whose query is empty or missing is answered with answer "",
\* cached = false and cacheKey "probe", and changes nothing: no counter, no
\* entry of the store, and the lock is not taken.
C12_EmptyQueryNoOp ==
  [][(started' # started /\ pc' = pc) =>
        /\ resp' = ProbeResp
        /\ resp'.answer = <<>> /\ ~resp'.cached /\ resp'.cacheKey = "probe"
        /\ stats' = stats
        /\ cache' = cache
        /\ cache_embeddings' = cache_embeddings
        /\ cache_timestamps' = cache_timestamps
        /\ lock' = lock
        /\ hist' = hist]_vars

\* An empty request was answered while the store and the counters were in
\* use: another request holds the lock.
C12_Witness ==
  /\ resp = ProbeResp
  /\ Len(cache) > 0
  /\ stats.total_requests > 0
  /\ lock # 0

\* Texts that differ in case, in leading and trailing whitespace and in
\* internal whitespace runs, and texts that differ in their words.
C13_Texts ==
  { <<>>, <<Space>>, <<"a">>, <<"A">>, <<Space, "a">>, <<"A", Space>>,
    <<"a", "b">>, <<"a", Space, "b">>, <<"A", Space, Space, "B">>,
    <<Space, "a", Space, Space, "B", Space>>, <<"b", Space, "a">> }

\* Texts with the same normalized form have the same key, and only those.
C13_KeyDeterminism ==
  /\ \A a, b \in C13_Texts :
       (normalize(a) = normalize(b)) <=> (exact_key(a) = exact_key(b))
  /\ exact_key(<<"A", Space, Space, "B">>) = exact_key(<<"a", Space, "b">>)
  /\ exact_key(<<Space, "a", Space, Space, "B", Space>>) = exact_key(<<"a", Space, "b">>)
  /\ exact_key(<<Space, "A">>) = exact_key(<<"a">>)
  /\ exact_key(<<"a", "b">>) # exact_key(<<"a", Space, "b">>)
  /\ exact_key(<<"b", Space, "a">>) # exact_key(<<"a", Space, "b">>)

\* C13: texts with equal normalized forms have equal keys, and once a miss
\* on text a has stored its entry, a lookup of a text b with the same
\* normalized form, made while that entry is stored and younger than
\* TTL_SECONDS, is an exact-match hit: cached = true, a's cacheKey and the
\* answer stored for a.
C13_NormalizedQueriesShareEntry ==
  /\ C13_KeyDeterminism
  /\ [][\A p \in Procs : \A i \in DOMAIN cache :
          LET a == cache[i][2].summarized
              K == cache[i][1]
          IN  (/\ pc[p] = "exact" /\ pc'[p] # "exact"
               /\ normalize(a) = normalize(query[p])
               /\ K \in DOMAIN cache_timestamps
               /\ now - cache_timestamps[K] < TTL_SECONDS)
              => /\ pc'[p] = "idle"
                 /\ K = exact_key(a)
                 /\ K = exact_key(query[p])
                 /\ resp' = QueryResp(Answer(a), TRUE, K)
                 /\ stats'.hits = stats.hits + 1
                 /\ stats'.misses = stats.misses]_vars

\* A text is about to be looked up while the entry stored for a different
\* text with the same normalized form is still fresh.
C13_Witness ==
  \E p \in Procs : \E i \in DOMAIN cache :
    /\ pc[p] = "exact"
    /\ cache[i][2].summarized # query[p]
    /\ normalize(cache[i][2].summarized) = normalize(query[p])
    /\ FreshAt(cache[i][1])

\* C14 as claimed: a lookup of key K made after K's entry has expired is a
\* miss that invokes the backend and overwrites the entry under K with
\* createdAt equal to the time of the re-insertion; the store then holds one
\* entry for K.  A request on the semantic scan whose own key is stored
\* (expired) never ends there with a hit.
C14_ExpiredLookupRepopulates ==
  [][\A p \in Procs :
       /\ (pc[p] = "scan" /\ key[p] \in OD_Keys(cache) /\ pc'[p] # "scan")
            => (pc'[p] = "backend" /\ stats'.hits = stats.hits)
       /\ (pc[p] = "backend" /\ pc'[p] # "backend" /\ key[p] \in OD_Keys(cache))
            => /\ cache_timestamps'[key[p]] = now
               /\ Len(cache') = Len(cache)]_vars

\* C14 amended: a lookup of key K made after K's entry has expired goes on
\* to the semantic scan; when no other fresh entry matches there, it is a
\* miss that invokes the backend and overwrites the entry under K, in place,
\* with the new answer, embedding and createdAt = the time of re-insertion;
\* the store holds exactly one entry for K; a following lookup of K within
\* TTL_SECONDS of the re-insertion is an exact-match hit.
C14_RepopulationAfterExpiry ==
  [][/\ Cardinality(OD_Keys(cache')) = Len(cache')
     /\ \A p \in Procs :
          /\ (pc[p] = "exact" /\ pc'[p] # "exact" /\ key[p] \in OD_Keys(cache)
              /\ now - cache_timestamps[key[p]] >= TTL_SECONDS)
               => (pc'[p] = "encode" /\ stats'.hits = stats.hits)
          /\ (pc[p] = "backend" /\ pc'[p] # "backend" /\ key[p] \in OD_Keys(cache))
               => /\ stats'.misses = stats.misses + 1
                  /\ OD_KeySeq(cache') = OD_KeySeq(cache)
                  /\ OD_KeySeq(cache_embeddings') = OD_KeySeq(cache_embeddings)
                  /\ OD_Get(cache', key[p]) = Answer(query[p])
                  /\ OD_Get(cache_embeddings', key[p]) = emb[p]
                  /\ cache_timestamps'[key[p]] = now
                  /\ \A k \in DOMAIN cache_timestamps \ {key[p]} :
                       cache_timestamps'[k] = cache_timestamps[k]
          /\ (pc[p] = "exact" /\ pc'[p] # "exact" /\ key[p] \in OD_Keys(cache)
              /\ now - cache_timestamps[key[p]] < TTL_SECONDS)
               => /\ pc'[p] = "idle"
                  /\ resp' = QueryResp(OD_Get(cache, key[p]), TRUE, key[p])]_vars

\* A key was inserted, re-inserted at a later time after its entry expired,
\* and then served as a hit; it is stored once.
C14_Witness ==
  \E i, j, l \in DOMAIN hist :
    /\ i < j /\ j < l
    /\ hist[i].op = "insert" /\ hist[j].op = "insert" /\ hist[l].op = "hit"
    /\ hist[i].key = hist[j].key /\ hist[j].key = hist[l].key
    /\ FreshAt(hist[l].key)
    /\ cache_timestamps[hist[l].key] > 0
    /\ Cardinality({n \in DOMAIN cache : cache[n][1] = hist[l].key}) = 1

\* The i-th stored entry is younger than TTL_SECONDS and its embedding has
\* cosine similarity to e above 19/20 (compared as squares of integers).
C15_Match(e, i) ==
  LET k == cache_embeddings[i][1]
      v == cache_embeddings[i][2]
  IN  /\ k \in DOMAIN cache_timestamps
      /\ now - cache_timestamps[k] < TTL_SECONDS
      /\ dot(e, v) > 0
      /\ 400 * dot(e, v) * dot(e, v) > 361 * dot(e, e) * dot(v, v)

\* Thread p's scan stands at a fresh entry whose similarity to the query is
\* exactly 0.95.
C15_AtBoundary(p) ==
  /\ pc[p] = "scan"
  /\ idx[p] \in DOMAIN cache_embeddings
  /\ LET k == cache_embeddings[idx[p]][1]
         v == cache_embeddings[idx[p]][2]
     IN  /\ now - cache_timestamps[k] < TTL_SECONDS
         /\ 400 * dot(emb[p], v) * dot(emb[p], v)
              = 361 * dot(emb[p], emb[p]) * dot(v, v)

\* C15: after an exact-match miss the lookup is a semantic hit if and only if
\* some stored, non-expired entry has cosine similarity to the query's
\* embedding strictly above 0.95 (exactly 0.95 is no match); the entry
\* returned is the first such entry in the store's iteration order.
C15_SemanticLookupRule ==
  [][\A p \in Procs :
       /\ C15_AtBoundary(p) => stats'.hits = stats.hits
       /\ (pc[p] = "scan" /\ pc'[p] # "scan") =>
            IF \E i \in DOMAIN cache_embeddings : C15_Match(emb[p], i)
              THEN LET f == CHOOSE i \in DOMAIN cache_embeddings :
                              /\ C15_Match(emb[p], i)
                              /\ \A j \in 1..(i - 1) : ~C15_Match(emb[p], j)
                       k == cache_embeddings[f][1]
                   IN  /\ pc'[p] = "idle"
                       /\ stats'.hits = stats.hits + 1
                       /\ resp' = QueryResp(OD_Get(cache, k), TRUE, k)
              ELSE /\ pc'[p] = "backend"
                   /\ stats'.hits = stats.hits
                   /\ resp' = resp]_vars

\* The scan has passed a first entry that is no match and stands at a second
\* one that is.
C15_Witness ==
  \E p \in Procs :
    /\ pc[p] = "scan"
    /\ idx[p] = 2
    /\ idx[p] <= Len(cache_embeddings)
    /\ ~C15_Match(emb[p], 1)
    /\ C15_Match(emb[p], 2)

\* C16: with semantic matching disabled, an exact-match miss goes straight
\* to the backend without the embedding call or the scan, and every hit is an
\* exact-key hit.  The program reads no such option: the formula is stated of
\* its one configuration.
C16_SemanticMatchingOff ==
  [][\A p \in Procs :
       /\ (pc[p] = "exact" /\ pc'[p] # "exact" /\ stats'.hits = stats.hits)
            => pc'[p] = "backend"
       /\ (lock = p /\ stats'.hits # stats.hits) => pc[p] = "exact"]_vars

\* The report follows the formulas: hitRate is the thousandth nearest to
\* hits / max(1, total_requests), costSavings the cent nearest to
\* hits * AVG_TOKENS * MODEL_COST; the counters reported are those of the
\* state read, with the lock held.
C17_ReportFromSnapshot(p) ==
  LET h == stats.hits
      t == stats.total_requests
      d == IF t >= 1 THEN t ELSE 1
      x == 1000 * h - resp'.hitRate * d
      y == h * AVG_TOKENS * MODEL_COST - resp'.costSavings * 10000
  IN  /\ lock = p
      /\ resp'.kind = "analytics"
      /\ resp'.totalRequests = t
      /\ resp'.cacheHits = h
      /\ resp'.cacheMisses = stats.misses
      /\ 2 * x <= d /\ -2 * x <= d
      /\ 2 * y <= 10000 /\ -2 * y <= 10000
      /\ t = 0 => resp'.hitRate = 0

\* C17 as claimed: the report is computed from one snapshot under the lock
\* with hit_rate = hits / max(1, total_requests) and cost_saved =
\* hits * AVG_TOKENS * MODEL_COST; with hits = 3 and total_requests = 10 it
\* reports hit_rate 0.3 and cost_saved 0.009 (nine tenths of a cent).
C17_ReportsCostSavedUnrounded ==
  [][\A p \in Procs :
       (pc[p] = "an_read" /\ pc'[p] # "an_read") =>
          /\ C17_ReportFromSnapshot(p)
          /\ (stats.hits = 3 /\ stats.total_requests = 10) =>
                (resp'.hitRate = 300 /\ resp'.costSavings * 10 = 9)]_vars

\* C17 amended: as above, but the report gives hitRate rounded to three
\* decimals and costSavings rounded to two: with hits = 3 and
\* total_requests = 10 it reports hitRate 0.3 and costSavings 0.01 (one
\* cent); with no requests yet it reports hitRate 0.
C17_ReportedMetrics ==
  [][\A p \in Procs :
       (pc[p] = "an_read" /\ pc'[p] # "an_read") =>
          /\ C17_ReportFromSnapshot(p)
          /\ (stats.hits = 3 /\ stats.total_requests = 10) =>
                (resp'.hitRate = 300 /\ resp'.costSavings = 1)]_vars

\* The report of a service with 3 hits in 10 requests has been given.
C17_Witness ==
  /\ resp.kind = "analytics"
  /\ resp.cacheHits = 3
  /\ resp.totalRequests = 10
  /\ stats.hits = 3

\* C18: immediately after a miss inserts key K, also when K's expired entry
\* was still in the store, K is the last entry in eviction order.
C18_InsertionAtMruPosition ==
  [][\A p \in Procs :
       (pc[p] = "backend" /\ pc'[p] # "backend") =>
          /\ cache'[Len(cache')][1] = key[p]
          /\ cache_embeddings'[Len(cache_embeddings')][1] = key[p]]_vars

\* C19: a hit, exact or semantic, changes only total_requests and hits: no
\* entry's answer, embedding or createdAt changes, no key is added or
\* removed, and misses and total_tokens stay as they are.
C19_HitLeavesEntriesUnchanged ==
  [][stats'.hits # stats.hits =>
       /\ stats'.hits = stats.hits + 1
       /\ stats'.total_requests \in {stats.total_requests, stats.total_requests + 1}
       /\ stats'.misses = stats.misses
       /\ stats'.total_tokens = stats.total_tokens
       /\ OD_Keys(cache') = OD_Keys(cache)
       /\ OD_Keys(cache_embeddings') = OD_Keys(cache_embeddings)
       /\ DOMAIN cache_timestamps' = DOMAIN cache_timestamps
       /\ Len(cache') = Len(cache)
       /\ \A k \in OD_Keys(cache) :
            /\ OD_Get(cache', k) = OD_Get(cache, k)
            /\ OD_Get(cache_embeddings', k) = OD_Get(cache_embeddings, k)
            /\ cache_timestamps'[k] = cache_timestamps[k]]_vars

\* Two hits have been served, the last event on the full store is a hit, and
\* the served entry is stored with its answer and creation time.
C19_Witness ==
  /\ resp.kind = "query" /\ resp.cached
  /\ stats.hits >= 2
  /\ hist # <<>>
  /\ hist[Len(hist)] = [op |-> "hit", key |-> resp.cacheKey]
  /\ Len(cache) = CACHE_SIZE
  /\ resp.cacheKey \in OD_Keys(cache)
  /\ OD_Get(cache, resp.cacheKey) = resp.answer
  /\ cache_timestamps[resp.cacheKey] = 0

\* C20: at the states where no handler holds the lock the store's size is at
\* most min(CACHE_SIZE, misses) and never decreases: the size grows by one
\* with a counted miss and shrinks only inside an insertion's eviction loop,
\* from CACHE_SIZE + 1 back to CACHE_SIZE, never in a lookup; the cacheSize
\* analytics reports is the size of the store, expired entries included.
C20_SizeMonotoneBoundedByMisses ==
  /\ [](/\ Len(cache) <= stats.misses
        /\ lock = 0 => Len(cache) <= CACHE_SIZE)
  /\ [][/\ Len(cache') < Len(cache) =>
             /\ lock # 0 /\ lock' = lock
             /\ pc[lock] = "evict"
             /\ Len(cache) = CACHE_SIZE + 1
             /\ Len(cache') = CACHE_SIZE
        /\ Len(cache') > Len(cache) =>
             /\ Len(cache') = Len(cache) + 1
             /\ stats'.misses = stats.misses + 1
        /\ \A p \in Procs :
             (pc[p] = "an_read" /\ pc'[p] # "an_read") =>
                resp'.cacheSize = Len(cache)]_vars

\* After an eviction, analytics has reported the full store's size while
\* every stored entry had expired.
C20_Witness ==
  /\ resp.kind = "analytics"
  /\ lock = 0
  /\ resp.cacheSize = Len(cache)
  /\ Len(cache) = CACHE_SIZE
  /\ stats.misses > CACHE_SIZE
  /\ \A k \in OD_Keys(cache) : ~FreshAt(k)

====
